---- MODULE Spec2Model ----
(***************************************************************************)
(* Model of utils/concatenate_niftis.py: the manifest is read, the first   *)
(* volume is loaded serially, the remaining volumes are loaded by a joblib *)
(* worker pool, the arrays are stacked along a new trailing axis and the   *)
(* 4D image is saved with the affine and header of the first volume.       *)
(*                                                                         *)
(* Indices are 1-based here (position i of the source is position i+1).    *)
(***************************************************************************)
EXTENDS Integers, Sequences, FiniteSets, TLC

(* ------------------------------ bounds --------------------------------- *)
\* longest manifest, in lines
MaxLines == 3
\* n_jobs ranges over -1 .. MaxJobs
MaxJobs == 1
\* number of execution units n_jobs = -1 resolves to
NCpu == 2

(* --------------------------- the environment --------------------------- *)
\* The lines a manifest is made of, as readlines() returns them.
BlankLine == <<" ", "\n">>
LineA == <<" ", "a", "\n">>
LineB == <<"b", " ", "\n">>
LineC == <<"c", "\n">>
ManifestLines == {BlankLine, LineA, LineB, LineC}

Whitespace == {" ", "\n"}

\* str.strip(): drop leading and trailing whitespace.
RECURSIVE lstrip(_)
lstrip(s) ==
    IF s = <<>> THEN s
    ELSE IF Head(s) \in Whitespace THEN lstrip(Tail(s)) ELSE s

RECURSIVE rstrip(_)
rstrip(s) ==
    IF s = <<>> THEN s
    ELSE IF s[Len(s)] \in Whitespace THEN rstrip(SubSeq(s, 1, Len(s) - 1)) ELSE s

strip(s) == rstrip(lstrip(s))

\* the paths that may name a file; no file is ever at c
FilePaths == {strip(LineA), strip(LineB)}

\* Shapes and arrays. An array is a shape and a value for every index tuple.
ShapeA == <<1, 1, 2>>
ShapeB == <<1, 2, 1>>

MaxDim(shape) == CHOOSE m \in {shape[i] : i \in DOMAIN shape} :
                    \A i \in DOMAIN shape : shape[i] <= m

Idx(shape) ==
    IF shape = <<>> THEN {<<>>}
    ELSE {ix \in [1..Len(shape) -> 1..MaxDim(shape)] :
            \A i \in 1..Len(shape) : ix[i] <= shape[i]}

\* voxel values of the catalogue's volumes: base + position along the axes
Voxels(shape, base) ==
    [shape |-> shape,
     data  |-> [ix \in Idx(shape) |-> base + ix[2] + 2 * ix[3]]]

\* What a path can hold: nothing, a file the codec cannot read, or a volume.
\* The codec's exception for a file it cannot read is passed on as it is:
\* its text names the file (Corrupt) or does not (CorruptUnnamed).
Missing == [kind |-> "missing"]
Corrupt == [kind |-> "corrupt", named |-> TRUE]
CorruptUnnamed == [kind |-> "corrupt", named |-> FALSE]
Meta(what, n) == [kind |-> what, id |-> n]
Volume(arr, aff, hdr) ==
    [kind |-> "volume", array |-> arr, affine |-> aff, header |-> hdr]

FileContents ==
    {Missing, Corrupt, CorruptUnnamed,
     Volume(Voxels(ShapeA, 10), Meta("affine", 1), Meta("header", 1)),
     Volume(Voxels(ShapeA, 20), Meta("affine", 2), Meta("header", 2)),
     Volume(Voxels(ShapeB, 30), Meta("affine", 2), Meta("header", 1))}

NoFile == [kind |-> "absent"]
OldFile == [kind |-> "old"]

(* ------------------------------- state --------------------------------- *)
VARIABLES
    manifest,          \* the manifest file: NoFile or [kind, lines]
    disk,              \* path -> contents of the input files
    n_jobs,            \* the n_jobs argument
    output_dir,        \* os.path.dirname(output_file): "" or "out"
    dirExists,         \* whether output_dir exists
    outFile,           \* what is at output_file
    outFile0,          \* what was at output_file when the run started
    pc,                \* position of the main process
    paths, first_data, affine, header, reference_shape,
    image_data_list, remaining_paths,
    task,              \* per remaining path: "pending", "running", "done", "failed"
    result,            \* per remaining path: what its worker returned or raised
    finished,          \* remaining-path indices in completion order
    concatenated_data,
    output_img,
    stderr,            \* messages printed to sys.stderr
    exit_code,         \* process exit code, -1 while the process runs
    loads,             \* manifest positions handed to nib.load, in call order
    stages,            \* pipeline stages entered, in order
    mkdirs,            \* number of os.makedirs calls
    prev               \* outcome of the previous run, None in the first run

envVars == <<manifest, disk, output_dir>>
fsVars == <<dirExists, outFile>>
refVars == <<first_data, affine, header, reference_shape, image_data_list,
             remaining_paths>>
poolVars == <<task, result, finished>>
vars == <<manifest, disk, n_jobs, output_dir, dirExists, outFile, outFile0, pc,
          paths, first_data, affine, header, reference_shape, image_data_list,
          remaining_paths, task, result, finished, concatenated_data,
          output_img, stderr, exit_code, loads, stages, mkdirs, prev>>

None == [kind |-> "none"]
NoShape == <<>>
NoPath == <<>>

JobValues == (0 - 1) .. MaxJobs

SeqsUpTo(S, n) == UNION {[1..k -> S] : k \in 0..n}

Manifests ==
    {NoFile} \cup {[kind |-> "file", lines |-> ls] : ls \in SeqsUpTo(ManifestLines, MaxLines)}

\* The state of a fresh process started with arguments and a file system.
Fresh ==
    /\ pc = "read"
    /\ paths = <<>>
    /\ first_data = None /\ affine = None /\ header = None
    /\ reference_shape = NoShape
    /\ image_data_list = <<>> /\ remaining_paths = <<>>
    /\ task = <<>> /\ result = <<>> /\ finished = <<>>
    /\ concatenated_data = None
    /\ output_img = None
    /\ stderr = <<>>
    /\ exit_code = -1
    /\ loads = <<>>
    /\ stages = <<>>
    /\ mkdirs = 0

Init ==
    /\ manifest \in Manifests
    /\ disk \in [FilePaths -> FileContents]
    /\ n_jobs \in JobValues
    /\ \E fs \in {<<"", TRUE, NoFile>>, <<"", TRUE, OldFile>>,
                  <<"out", TRUE, NoFile>>, <<"out", TRUE, OldFile>>,
                  <<"out", FALSE, NoFile>>} :
          /\ output_dir = fs[1]
          /\ dirExists = fs[2]
          /\ outFile = fs[3]
    /\ outFile0 = outFile
    /\ prev = None
    /\ Fresh

(* ------------------------ the codec and the worker --------------------- *)
Exc(type, kind, path) ==
    [type |-> type, kind |-> kind, path |-> path,
     actual |-> NoShape, expected |-> NoShape]

\* nib.load(path) followed by get_fdata(): the volume, or the exception raised
load(path) ==
    IF path \notin DOMAIN disk
    THEN [ok |-> FALSE, exc |-> "FileNotFoundError", names |-> path]
    ELSE CASE disk[path].kind = "missing" ->
                [ok |-> FALSE, exc |-> "FileNotFoundError", names |-> path]
           [] disk[path].kind = "corrupt" ->
                [ok |-> FALSE, exc |-> "ImageFileError",
                 names |-> IF disk[path].named THEN path ELSE NoPath]
           [] OTHER -> [ok |-> TRUE, img |-> disk[path]]

\* (mutant) the worker returns the data without comparing its shape
_load_nifti_worker_unchecked(path, shape) ==
    LET r == load(path) IN
    IF r.ok
    THEN [ok |-> TRUE, data |-> r.img.array]
    ELSE IF r.exc = "FileNotFoundError"
         THEN [ok |-> FALSE,
               exc |-> Exc("FileNotFoundError", "FileNotFound", path)]
         ELSE [ok |-> FALSE, exc |-> Exc(r.exc, "LoadError", r.names)]

\* _load_nifti_worker(path, reference_shape): the data, or the exception that
\* leaves the worker; path is the path its message is built from.
_load_nifti_worker(path, shape) ==
    LET r == load(path) IN
    IF r.ok
    THEN IF r.img.array.shape # shape
         THEN [ok |-> FALSE,
               exc |-> [type |-> "ValueError", kind |-> "ShapeMismatch",
                        path |-> path, actual |-> r.img.array.shape,
                        expected |-> shape]]
         ELSE [ok |-> TRUE, data |-> r.img.array]
    ELSE IF r.exc = "FileNotFoundError"
         THEN [ok |-> FALSE,
               exc |-> Exc("FileNotFoundError", "FileNotFound", path)]
         ELSE [ok |-> FALSE,
               exc |-> Exc(r.exc, "LoadError", r.names)]

\* (mutant) np.stack(arrays, axis=0): the arrays along a new first axis
np_stack_axis0(arrays) ==
    IF arrays = <<>> \/ \E i \in DOMAIN arrays : arrays[i].shape # arrays[1].shape
    THEN [ok |-> FALSE]
    ELSE LET shape == <<Len(arrays)>> \o arrays[1].shape
         IN [ok |-> TRUE,
             array |-> [shape |-> shape,
                        data  |-> [ix \in Idx(shape) |->
                                     arrays[ix[1]].data[Tail(ix)]]]]

\* np.stack(arrays, axis=-1): the arrays along a new last axis, or ValueError
\* when there is no array or the shapes differ.
np_stack(arrays) ==
    IF arrays = <<>> \/ \E i \in DOMAIN arrays : arrays[i].shape # arrays[1].shape
    THEN [ok |-> FALSE]
    ELSE LET shape == Append(arrays[1].shape, Len(arrays))
             d == Len(shape)
         IN [ok |-> TRUE,
             array |-> [shape |-> shape,
                        data  |-> [ix \in Idx(shape) |->
                                     arrays[ix[d]].data[SubSeq(ix, 1, d - 1)]]]]

\* Parallel(n_jobs=...): the number of workers, 0 when the pool rejects n_jobs.
PoolSize(n) == IF n < 0 THEN NCpu ELSE n

(* ------------------------------ the run -------------------------------- *)
Message(kind, path, cause) == [kind |-> kind, path |-> path, cause |-> cause]

\* print(..., file=sys.stderr); sys.exit(1)
Fail(msg) ==
    /\ stderr' = Append(stderr, msg)
    /\ exit_code' = 1
    /\ pc' = "exit"

\* (mutant) the handler exits with sys.exit(), that is with code 0
OnManifestNotFoundExitZero ==
    /\ stderr' = Append(stderr, Message("ManifestNotFound", NoPath, None))
    /\ exit_code' = 0
    /\ pc' = "exit"

\* except FileNotFoundError: the manifest is missing
OnManifestNotFound == Fail(Message("ManifestNotFound", NoPath, None))

\* if not paths: the manifest names no file
OnEmptyManifest == Fail(Message("EmptyManifest", NoPath, None))

\* (mutant) the handler prints the error and goes on to the parallel load
OnFirstLoadErrorNoExit(path, e) ==
    /\ stderr' = Append(stderr, Message("ReferenceLoadError", path, e))
    /\ pc' = "pool"
    /\ UNCHANGED exit_code

\* except Exception as e, around the first load
OnFirstLoadError(path, e) == Fail(Message("ReferenceLoadError", path, e))

\* (mutant) the handler prints the error and does not exit
OnParallelErrorNoExit(e) ==
    /\ stderr' = Append(stderr, Message("ParallelLoadError", e.path, e))
    /\ pc' = "stack"
    /\ UNCHANGED exit_code

\* except Exception as e, around the parallel load
OnParallelError(e) == Fail(Message("ParallelLoadError", e.path, e))

\* except Exception as e, around np.stack
OnStackError(e) == Fail(Message("StackError", NoPath, e))

\* (mutant) the handler prints the error and returns normally
OnSaveErrorSwallowed(e) ==
    /\ stderr' = Append(stderr, Message("SaveError", NoPath, e))
    /\ exit_code' = 0
    /\ pc' = "done"

\* except Exception as e, around the creation and the saving of the image
OnSaveError(e) == Fail(Message("SaveError", NoPath, e))

\* (mutant) the paths of the manifest with repeated paths dropped
RECURSIVE Dedup(_)
Dedup(ps) ==
    IF ps = <<>> THEN ps
    ELSE LET front == Dedup(SubSeq(ps, 1, Len(ps) - 1))
             last == ps[Len(ps)]
         IN IF \E i \in DOMAIN front : front[i] = last
            THEN front ELSE Append(front, last)

CleanPathsDedup(lines) ==
    LET keep == SelectSeq(lines, LAMBDA l : strip(l) # <<>>)
    IN Dedup([i \in 1..Len(keep) |-> strip(keep[i])])

\* (mutant) the kept paths come out last line first
CleanPathsReversed(lines) ==
    LET keep == SelectSeq(lines, LAMBDA l : strip(l) # <<>>)
    IN [i \in 1..Len(keep) |-> strip(keep[Len(keep) + 1 - i])]

\* (mutant) only empty lines are dropped: "if line" for "if line.strip()"
CleanPathsKeepBlank(lines) ==
    LET keep == SelectSeq(lines, LAMBDA l : l # <<>>)
    IN [i \in 1..Len(keep) |-> strip(keep[i])]

\* the paths of the manifest: stripped lines, blank ones dropped
CleanPaths(lines) ==
    LET keep == SelectSeq(lines, LAMBDA l : strip(l) # <<>>)
    IN [i \in 1..Len(keep) |-> strip(keep[i])]

\* 1. Read and clean file paths from the input text file
ReadManifest ==
    /\ pc = "read"
    /\ stages' = Append(stages, "read")
    /\ IF manifest.kind = "absent"
       THEN /\ OnManifestNotFound
            /\ UNCHANGED paths
       ELSE LET ps == CleanPaths(manifest.lines) IN
            /\ paths' = ps
            /\ IF ps = <<>>
               THEN OnEmptyManifest
               ELSE /\ pc' = "first"
                    /\ UNCHANGED <<stderr, exit_code>>
    /\ UNCHANGED <<envVars, n_jobs, fsVars, outFile0, refVars, poolVars,
                   concatenated_data, output_img, loads, mkdirs, prev>>

\* (mutant) the pool is started whatever is left to load
HasRemainingAlways(rest) == TRUE

\* "if remaining_paths:": the pool is set up only when paths are left
HasRemaining(rest) == rest # <<>>

\* 2. Load the first image serially to establish reference properties
LoadFirst ==
    /\ pc = "first"
    /\ stages' = Append(stages, "reference")
    /\ loads' = Append(loads, 1)
    /\ LET r == load(paths[1]) IN
       IF r.ok
       THEN /\ first_data' = r.img.array
            /\ affine' = r.img.affine
            /\ header' = r.img.header
            /\ reference_shape' = r.img.array.shape
            /\ image_data_list' = <<r.img.array>>
            /\ remaining_paths' = Tail(paths)
            /\ pc' = IF HasRemaining(Tail(paths)) THEN "pool" ELSE "stack"
            /\ UNCHANGED <<stderr, exit_code>>
       ELSE /\ OnFirstLoadError(paths[1], Exc(r.exc, "LoadError", r.names))
            /\ UNCHANGED refVars
    /\ UNCHANGED <<envVars, n_jobs, fsVars, outFile0, paths, poolVars,
                   concatenated_data, output_img, mkdirs, prev>>

\* 3. Parallel(n_jobs=n_jobs, verbose=10)(...): one task per remaining path;
\* the pool raises ValueError for n_jobs = 0.
StartPool ==
    /\ pc = "pool"
    /\ stages' = Append(stages, "parallel")
    /\ IF PoolSize(n_jobs) = 0
       THEN /\ OnParallelError(Exc("ValueError", "PoolRejected", NoPath))
            /\ UNCHANGED poolVars
       ELSE /\ task' = [k \in 1..Len(remaining_paths) |-> "pending"]
            /\ result' = [k \in 1..Len(remaining_paths) |-> None]
            /\ finished' = <<>>
            /\ pc' = "load"
            /\ UNCHANGED <<stderr, exit_code>>
    /\ UNCHANGED <<envVars, n_jobs, fsVars, outFile0, paths, refVars,
                   concatenated_data, output_img, loads, mkdirs, prev>>

Running == {k \in DOMAIN task : task[k] = "running"}
Failed == {k \in DOMAIN task : task[k] = "failed"}

\* (mutant) a task that failed is handed to a worker again
MayDispatchRetry(k) ==
    /\ task[k] \in {"pending", "failed"}
    /\ \A j \in 1..(k - 1) : task[j] # "pending"
    /\ Cardinality({j \in DOMAIN task : task[j] = "running"}) < PoolSize(n_jobs)

\* (mutant) every pending task is handed to a worker at once
MayDispatchUnbounded(k) ==
    /\ task[k] = "pending"
    /\ \A j \in 1..(k - 1) : task[j] # "pending"

\* whether the pool may hand task k to a worker: tasks are dispatched in
\* input order, at most PoolSize at a time; a pool of one runs the tasks in
\* the caller, so no task follows a failed one.
MayDispatch(k) ==
    /\ task[k] = "pending"
    /\ \A j \in 1..(k - 1) : task[j] # "pending"
    /\ Cardinality(Running) < PoolSize(n_jobs)
    /\ PoolSize(n_jobs) = 1 => Failed = {}

\* a worker takes task k and calls nib.load on its path
StartTask(k) ==
    /\ pc = "load"
    /\ MayDispatch(k)
    /\ task' = [task EXCEPT ![k] = "running"]
    /\ loads' = Append(loads, k + 1)
    /\ UNCHANGED <<envVars, n_jobs, fsVars, outFile0, pc, paths, refVars,
                   result, finished, concatenated_data, output_img, stderr,
                   exit_code, stages, mkdirs, prev>>

\* task k returns its data or raises
FinishTask(k) ==
    /\ pc = "load"
    /\ task[k] = "running"
    /\ LET r == _load_nifti_worker(remaining_paths[k], reference_shape) IN
       /\ result' = [result EXCEPT ![k] = r]
       /\ task' = [task EXCEPT ![k] = IF r.ok THEN "done" ELSE "failed"]
    /\ finished' = Append(finished, k)
    /\ UNCHANGED <<envVars, n_jobs, fsVars, outFile0, pc, paths, refVars,
                   concatenated_data, output_img, stderr, exit_code, loads,
                   stages, mkdirs, prev>>

\* (mutant) the results in the order the tasks completed
parallel_results_by_completion ==
    [k \in DOMAIN finished |-> result[finished[k]].data]

\* the list Parallel returns: the results in the order of remaining_paths
parallel_results == [k \in DOMAIN result |-> result[k].data]

\* every task returned: image_data_list.extend(parallel_results)
Join ==
    /\ pc = "load"
    /\ \A k \in DOMAIN task : task[k] = "done"
    /\ image_data_list' = image_data_list \o parallel_results
    /\ pc' = "stack"
    /\ UNCHANGED <<envVars, n_jobs, fsVars, outFile0, paths, first_data, affine,
                   header, reference_shape, remaining_paths, poolVars,
                   concatenated_data, output_img, stderr, exit_code, loads,
                   stages, mkdirs, prev>>

\* (mutant) the pool raises an exception of its own for a failed task
RaisedOpaque ==
    IF Failed = {} THEN {} ELSE {Exc("JoblibException", "WorkerError", NoPath)}

\* (mutant) the pool drops the exception of a failed task and keeps waiting
RaisedNever == {}

\* the exceptions Parallel may re-raise: those of the tasks that failed
Raised == {result[k].exc : k \in Failed}

\* Parallel re-raises the exception of a failed task in the main process
AbortLoad ==
    /\ pc = "load"
    /\ \E e \in Raised : OnParallelError(e)
    /\ UNCHANGED <<envVars, n_jobs, fsVars, outFile0, paths, refVars, poolVars,
                   concatenated_data, output_img, loads, stages, mkdirs, prev>>

\* 4. Stack data into a 4D array
Stack ==
    /\ pc = "stack"
    /\ stages' = Append(stages, "stack")
    /\ LET r == np_stack(image_data_list) IN
       IF r.ok
       THEN /\ concatenated_data' = r.array
            /\ pc' = "image"
            /\ UNCHANGED <<stderr, exit_code>>
       ELSE /\ OnStackError(Exc("ValueError", "StackError", NoPath))
            /\ UNCHANGED concatenated_data
    /\ UNCHANGED <<envVars, n_jobs, fsVars, outFile0, paths, refVars, poolVars,
                   output_img, loads, mkdirs, prev>>

\* (mutant) the image takes the affine and header of the last entry
Nifti1ImageLastMeta(data, aff, hdr) ==
    Volume(data, disk[paths[Len(paths)]].affine, disk[paths[Len(paths)]].header)

\* nib.Nifti1Image(concatenated_data, affine, header)
Nifti1Image(data, aff, hdr) == Volume(data, aff, hdr)

\* (mutant) os.makedirs is called whenever the path has a directory part
NeedsDirUnchecked == output_dir # ""

\* if output_dir and not os.path.exists(output_dir)
NeedsDir == output_dir # "" /\ ~dirExists

\* 5. Create the 4D image and the output directory when it is absent;
\* os.makedirs succeeds or raises OSError.
CreateImage ==
    /\ pc = "image"
    /\ stages' = Append(stages, "save")
    /\ output_img' = Nifti1Image(concatenated_data, affine, header)
    /\ IF NeedsDir
       THEN /\ mkdirs' = mkdirs + 1
            /\ \/ /\ dirExists' = TRUE
                  /\ pc' = "save"
                  /\ UNCHANGED <<stderr, exit_code>>
               \/ /\ OnSaveError(Exc("OSError", "DirectoryCreateError", NoPath))
                  /\ UNCHANGED dirExists
       ELSE /\ pc' = "save"
            /\ UNCHANGED <<mkdirs, dirExists, stderr, exit_code>>
    /\ UNCHANGED <<envVars, n_jobs, outFile, outFile0, paths, refVars, poolVars,
                   concatenated_data, loads, prev>>

PartialFile == [kind |-> "partial"]

\* nib.save(output_img, output_file): the file is written, or the codec
\* raises, leaving the path as it was or holding an incomplete file
Save ==
    /\ pc = "save"
    /\ \/ /\ outFile' = output_img
          /\ pc' = "done"
          /\ exit_code' = 0
          /\ UNCHANGED stderr
       \/ /\ outFile' \in {outFile, PartialFile}
          /\ OnSaveError(Exc("OSError", "SaveError", NoPath))
    /\ UNCHANGED <<envVars, n_jobs, dirExists, outFile0, paths, refVars,
                   poolVars, concatenated_data, output_img, loads, stages,
                   mkdirs, prev>>

Terminated == pc \in {"done", "exit"}

Next ==
    \/ ReadManifest
    \/ LoadFirst
    \/ StartPool
    \/ \E k \in DOMAIN task : StartTask(k)
    \/ \E k \in DOMAIN task : FinishTask(k)
    \/ Join
    \/ AbortLoad
    \/ Stack
    \/ CreateImage
    \/ Save

Spec == Init /\ [][Next]_vars

\* The run under the scheduling the claims on termination assume: as long
\* as a step is possible one is taken, in the main process (its calls of the
\* codec return), in the pool (a pending task is handed to a free worker) or
\* in a worker (a started task ends).
FairSpec == Spec /\ WF_vars(Next)

\* what a run left behind: its n_jobs, exit code, last stage and stacked array
Outcome ==
    [kind |-> "outcome", n_jobs |-> n_jobs, exit_code |-> exit_code,
     stages |-> stages, paths |-> paths, concatenated_data |-> concatenated_data]

\* the pipeline is run again on the same manifest and the same input files,
\* with any n_jobs
Rerun ==
    /\ Terminated
    /\ prev = None
    /\ prev' = Outcome
    /\ n_jobs' \in JobValues
    /\ outFile0' = outFile
    /\ pc' = "read"
    /\ paths' = <<>>
    /\ first_data' = None /\ affine' = None /\ header' = None
    /\ reference_shape' = NoShape
    /\ image_data_list' = <<>> /\ remaining_paths' = <<>>
    /\ task' = <<>> /\ result' = <<>> /\ finished' = <<>>
    /\ concatenated_data' = None
    /\ output_img' = None
    /\ stderr' = <<>>
    /\ exit_code' = -1
    /\ loads' = <<>>
    /\ stages' = <<>>
    /\ mkdirs' = 0
    /\ UNCHANGED <<envVars, fsVars>>

NextTwice ==
    \/ Next
    \/ Rerun

\* two runs that find no file at an output path without directory part
InitTwice ==
    /\ Init
    /\ output_dir = ""
    /\ outFile = NoFile

SpecTwice == InitTwice /\ [][NextTwice]_vars

(* ------------------------------ properties ----------------------------- *)
Range(f) == {f[i] : i \in DOMAIN f}

\* arr[..., i]: the slice at index i of the last axis
Slice(arr, i) ==
    LET d == Len(arr.shape)
        shape == SubSeq(arr.shape, 1, d - 1)
    IN [shape |-> shape,
        data  |-> [ix \in Idx(shape) |-> arr.data[Append(ix, i)]]]

\* the file the i-th manifest entry names
Entry(i) == IF paths[i] \in DOMAIN disk THEN disk[paths[i]] ELSE Missing

Succeeded == pc = "done"

\* C1: in a successful run, slice i of the written output is the data of the
\* i-th manifest entry: slice 1 is the serially loaded first volume and slice
\* k + 1 the result of the worker of remaining path k, whatever the order in
\* which the tasks completed.
OutputInManifestOrder ==
    Succeeded =>
        /\ outFile.kind = "volume"
        /\ Slice(outFile.array, 1) = first_data
        /\ \A k \in DOMAIN remaining_paths :
              /\ remaining_paths[k] = paths[k + 1]
              /\ Slice(outFile.array, k + 1) = result[k].data
        /\ \A i \in DOMAIN paths :
              /\ Entry(i).kind = "volume"
              /\ Slice(outFile.array, i) = Entry(i).array

\* a successful run of three volumes whose second task completed first and
\* returned other data than the first task
OutOfOrderCompletionSucceeded ==
    /\ Succeeded
    /\ Len(paths) = 3
    /\ finished = <<2, 1>>
    /\ result[1].data # result[2].data

\* an entry that cannot be loaded into the stack: a missing file, a file the
\* codec rejects, or (after the first) a volume of another shape than the first
BadEntry(i) ==
    \/ Entry(i).kind # "volume"
    \/ /\ i > 1
       /\ Entry(1).kind = "volume"
       /\ Entry(i).array.shape # Entry(1).array.shape

\* the manifest positions whose load has been carried out and failed
FailedLoads ==
    {i \in DOMAIN paths :
        /\ BadEntry(i)
        /\ \/ i = 1 /\ 1 \in Range(loads)
           \/ i > 1 /\ i - 1 \in Range(finished)}

\* C2: once the first load or a parallel load task has failed, the save step
\* is never executed: no image is built, no directory is made and what is at
\* the output path stays what it was when the run started.
NoSaveAfterLoadFailure ==
    FailedLoads # {} =>
        /\ pc \in {"load", "exit"}
        /\ "save" \notin Range(stages)
        /\ output_img = None
        /\ mkdirs = 0
        /\ outFile = outFile0

\* a run ended by a failed task, another task having returned its data, with
\* a file at the output path
TaskFailedBesideDoneTask ==
    /\ pc = "exit"
    /\ \E k \in DOMAIN task : task[k] = "failed"
    /\ \E k \in DOMAIN task : task[k] = "done"
    /\ outFile0 = OldFile

\* the remaining entries whose volume has another shape than the first volume
Mismatching ==
    {i \in DOMAIN paths :
        /\ i > 1
        /\ Entry(1).kind = "volume"
        /\ Entry(i).kind = "volume"
        /\ Entry(i).array.shape # Entry(1).array.shape}

\* the only message on the error stream reports a shape mismatch of entry i
ReportsMismatchOf(i) ==
    /\ Len(stderr) = 1
    /\ stderr[1].cause.kind = "ShapeMismatch"
    /\ stderr[1].path = paths[i]
    /\ stderr[1].cause.actual = Entry(i).array.shape
    /\ stderr[1].cause.expected = Entry(1).array.shape

\* C3 as stated: a run on a manifest with a non-first volume of another shape
\* than the first ends with ShapeMismatch naming that path and creates no
\* output file.
MismatchAlwaysReported ==
    (Terminated /\ Mismatching # {}) =>
        /\ pc = "exit"
        /\ \E i \in Mismatching : ReportsMismatchOf(i)
        /\ outFile = outFile0

\* C3 as amended: such a run ends with a non-zero exit code and the output
\* path untouched; the error is ShapeMismatch naming a mismatching path when
\* n_jobs is not 0 and every remaining entry is a readable volume, and is
\* otherwise the pool's rejection of n_jobs or the error of a remaining entry
\* that cannot be read.
MismatchFailsRun ==
    (Terminated /\ Mismatching # {}) =>
        /\ pc = "exit"
        /\ exit_code = 1
        /\ outFile = outFile0
        /\ Len(stderr) = 1
        /\ stderr[1].kind = "ParallelLoadError"
        /\ (n_jobs # 0 /\ \A i \in 2..Len(paths) : Entry(i).kind = "volume")
              => \E i \in Mismatching : ReportsMismatchOf(i)
        /\ ~(\E i \in Mismatching : ReportsMismatchOf(i))
              => \/ n_jobs = 0 /\ stderr[1].cause.kind = "PoolRejected"
                 \/ \E i \in 2..Len(paths) :
                       \/ /\ Entry(i).kind = "missing"
                          /\ stderr[1].cause.kind = "FileNotFound"
                          /\ stderr[1].path = paths[i]
                       \/ /\ Entry(i).kind = "corrupt"
                          /\ stderr[1].cause.kind = "LoadError"

\* a run ended by the shape mismatch of the third entry, reported with its
\* path, the second entry having been loaded
MismatchReported ==
    /\ pc = "exit"
    /\ Len(paths) = 3
    /\ Mismatching = {3}
    /\ ReportsMismatchOf(3)
    /\ task[1] = "done"

\* did the run o fail before its save stage
FailedBeforeSave(o) ==
    /\ o.exit_code # 0
    /\ o.stages[Len(o.stages)] # "save"

\* the two runs agree: both failed before the save stage, or both stacked the
\* same array (a failure of the save stage itself is the file system's)
SameOutcome(o1, o2) ==
    /\ FailedBeforeSave(o1) <=> FailedBeforeSave(o2)
    /\ o1.concatenated_data = o2.concatenated_data

\* C4 as stated: two runs on the same manifest and files with any two
\* concurrency values end the same way.
SameOutcomeForAnyJobs ==
    (prev # None /\ Terminated) => SameOutcome(prev, Outcome)

\* C4 as amended: two runs on the same manifest and files with any two
\* concurrency values other than 0 end the same way: both fail before the
\* save stage or both stack the same array, whatever the order in which the
\* tasks were dispatched and completed.
SameOutcomeForAcceptedJobs ==
    (prev # None /\ Terminated /\ prev.n_jobs # 0 /\ n_jobs # 0)
        => SameOutcome(prev, Outcome)

\* a sequential run and then a parallel run of three volumes, both
\* successful, the second task of the parallel run completing first
TwoRunsDifferentJobs ==
    /\ prev # None
    /\ prev.n_jobs = 1
    /\ prev.exit_code = 0
    /\ n_jobs = -1
    /\ Succeeded
    /\ Len(paths) = 3
    /\ finished = <<2, 1>>
    /\ result[1].data # result[2].data

\* the lines of the manifest that hold something else than whitespace
NonBlank ==
    {i \in DOMAIN manifest.lines :
        \E j \in DOMAIN manifest.lines[i] : manifest.lines[i][j] \notin Whitespace}

\* C5: in a successful run the stacked and the written array have the shape
\* of the first entry's volume followed by the number of non-blank lines of
\* the manifest, a path listed twice counting twice.
OutputShape ==
    Succeeded =>
        /\ concatenated_data.shape =
              Append(Entry(1).array.shape, Cardinality(NonBlank))
        /\ outFile.array.shape = concatenated_data.shape
        /\ Len(paths) = Cardinality(NonBlank)

\* a successful run on a manifest with a blank line and the same path twice
DuplicatesAndBlankStacked ==
    /\ Succeeded
    /\ Len(manifest.lines) = 3
    /\ Cardinality(NonBlank) = 2
    /\ paths[1] = paths[2]

\* the stage each error message belongs to
StageOf(kind) ==
    CASE kind \in {"ManifestNotFound", "EmptyManifest"} -> "read"
      [] kind = "ReferenceLoadError" -> "reference"
      [] kind = "ParallelLoadError" -> "parallel"
      [] kind = "StackError" -> "stack"
      [] kind = "SaveError" -> "save"

\* the stages of a run that goes through, in order
AllStages ==
    IF Len(paths) > 1
    THEN <<"read", "reference", "parallel", "stack", "save">>
    ELSE <<"read", "reference", "stack", "save">>

\* C6: a run that has not ended has no exit code and has printed no error; a
\* run that has ended either succeeded (exit code 0, the image written to the
\* output path, no error printed, every stage passed, no entry that cannot be
\* loaded, no task failed) or failed (exit code 1, exactly one error message,
\* printed by the last stage entered, which is the stage that failed).
TwoTerminalStates ==
    /\ ~Terminated => exit_code = -1 /\ stderr = <<>>
    /\ pc = "done" =>
          /\ exit_code = 0
          /\ stderr = <<>>
          /\ outFile = output_img /\ outFile.kind = "volume"
          /\ stages = AllStages
          /\ \A i \in DOMAIN paths : ~BadEntry(i)
          /\ \A k \in DOMAIN task : task[k] = "done"
          /\ manifest.kind = "file" /\ paths # <<>>
    /\ pc = "exit" =>
          /\ exit_code = 1
          /\ Len(stderr) = 1
          /\ StageOf(stderr[1].kind) = stages[Len(stages)]
          /\ stages = SubSeq(AllStages, 1, Len(stages))
          /\ outFile \in {outFile0, PartialFile}

\* a run ended by the error of a failed task while another task is running
FailedWithTaskInFlight ==
    /\ pc = "exit"
    /\ stderr[1].kind = "ParallelLoadError"
    /\ \E k \in DOMAIN task : task[k] = "failed"
    /\ \E k \in DOMAIN task : task[k] = "running"

\* C7: when the manifest file is missing, the run ends in its first stage
\* with ManifestNotFound and a non-zero exit code, and nib.load is never
\* called, no task is created and nothing is written.
MissingManifestFailsFirst ==
    manifest.kind = "absent" =>
        /\ loads = <<>> /\ task = <<>> /\ first_data = None
        /\ outFile = outFile0 /\ output_img = None /\ mkdirs = 0
        /\ stages # <<>> =>
              /\ pc = "exit"
              /\ exit_code # 0 /\ exit_code # -1
              /\ stages = <<"read">>
              /\ Len(stderr) = 1 /\ stderr[1].kind = "ManifestNotFound"

\* a run on a missing manifest has ended, a file being at the output path
MissingManifestRunEnded ==
    /\ manifest.kind = "absent"
    /\ pc = "exit"
    /\ outFile0 = OldFile

\* the manifest holds no line, or only lines of whitespace
AllBlank ==
    /\ manifest.kind = "file"
    /\ \A i \in DOMAIN manifest.lines :
          \A j \in DOMAIN manifest.lines[i] : manifest.lines[i][j] \in Whitespace

\* C8: when the manifest has no line or only blank lines, the run ends in its
\* first stage with EmptyManifest and a non-zero exit code, and nib.load is
\* never called and nothing is written.
EmptyManifestFails ==
    AllBlank =>
        /\ loads = <<>> /\ task = <<>> /\ first_data = None
        /\ outFile = outFile0 /\ output_img = None /\ mkdirs = 0
        /\ stages # <<>> =>
              /\ pc = "exit"
              /\ exit_code # 0 /\ exit_code # -1
              /\ stages = <<"read">>
              /\ Len(stderr) = 1 /\ stderr[1].kind = "EmptyManifest"

\* a run on a manifest of two blank lines has ended
BlankManifestRunEnded ==
    /\ AllBlank
    /\ Len(manifest.lines) = 2
    /\ pc = "exit"

\* C9: a successful run on a single volume writes an array whose shape is the
\* volume's shape followed by 1 and whose slice 1 along the last axis is the
\* volume's array, shape and values.
SingleVolumeRoundTrip ==
    (Succeeded /\ Len(paths) = 1) =>
        /\ outFile.array.shape = Append(Entry(1).array.shape, 1)
        /\ Slice(outFile.array, 1) = Entry(1).array
        /\ Slice(concatenated_data, 1) = first_data

\* a successful run on a manifest of one path and a blank line
SingleVolumeSaved ==
    /\ Succeeded
    /\ Len(paths) = 1
    /\ Len(manifest.lines) = 2
    /\ Cardinality(DOMAIN Entry(1).array.data) > 1

\* C10: from the moment the reference is established, affine and header are
\* those of the first entry's file, in every later state of the run, and the
\* image built for and written by the save step carries exactly them,
\* whatever the affine and header of the other entries.
MetadataFromFirstVolume ==
    /\ reference_shape # NoShape =>
          /\ affine = Entry(1).affine
          /\ header = Entry(1).header
    /\ output_img # None =>
          /\ output_img.affine = Entry(1).affine
          /\ output_img.header = Entry(1).header
    /\ Succeeded =>
          /\ outFile.affine = Entry(1).affine
          /\ outFile.header = Entry(1).header

\* a successful run whose second entry has another affine and another header
\* than the first
OtherMetadataIgnored ==
    /\ Succeeded
    /\ Len(paths) >= 2
    /\ Entry(2).affine # Entry(1).affine
    /\ Entry(2).header # Entry(1).header

\* the tasks that have run to their end on an entry that cannot be loaded
FailedTasks == {k \in Range(finished) : BadEntry(k + 1)}

\* the error the load of entry i ends with
LoadErrorOf(i) ==
    CASE Entry(i).kind = "missing" -> Exc("FileNotFoundError", "FileNotFound", paths[i])
      [] Entry(i).kind = "corrupt" ->
            Exc("ImageFileError", "LoadError",
                IF Entry(i).named THEN paths[i] ELSE NoPath)
      [] OTHER -> [type |-> "ValueError", kind |-> "ShapeMismatch",
                   path |-> paths[i], actual |-> Entry(i).array.shape,
                   expected |-> Entry(1).array.shape]

\* C11: once a load task has failed, the run stays in the load phase or has
\* exited: the list to stack still holds the first volume alone, nothing is
\* stacked, and a run that has exited has printed exactly one error, the
\* error of one of the tasks that failed, also when several tasks failed or
\* other tasks are still running or have returned their data.
OneErrorNoPartialResults ==
    FailedTasks # {} =>
        /\ pc \in {"load", "exit"}
        /\ image_data_list = <<first_data>>
        /\ "stack" \notin Range(stages)
        /\ concatenated_data = None
        /\ pc = "exit" =>
              /\ Len(stderr) = 1
              /\ stderr[1].kind = "ParallelLoadError"
              /\ \E k \in FailedTasks : stderr[1].cause = LoadErrorOf(k + 1)

\* a run ended by the error of the second of two failed tasks, whose errors
\* differ
SecondOfTwoErrorsPropagated ==
    /\ pc = "exit"
    /\ FailedTasks = {1, 2}
    /\ LoadErrorOf(2) # LoadErrorOf(3)
    /\ stderr[1].cause = LoadErrorOf(3)

\* C12 as stated: the error a run ended by a failed load task has printed
\* names the path of a task that failed, whether the task failed by a shape
\* mismatch, a missing file or an error of the codec.
PropagatedErrorNamesPath ==
    (pc = "exit" /\ FailedTasks # {}) =>
        \E k \in FailedTasks :
            /\ stderr[1].cause = LoadErrorOf(k + 1)
            /\ stderr[1].path = paths[k + 1]

\* C13: the reference shape, once set, is the shape of the first entry's
\* volume in every later state; when np.stack is about to run and in every
\* state after it, the list holds one array per path, each of the reference
\* shape, so np.stack does not raise and no StackError is ever printed.
StackInputsValid ==
    /\ reference_shape # NoShape =>
          /\ reference_shape = Entry(1).array.shape
          /\ first_data.shape = reference_shape
    /\ (pc = "stack" \/ "stack" \in Range(stages)) =>
          /\ Len(image_data_list) = Len(paths)
          /\ \A i \in DOMAIN image_data_list :
                image_data_list[i].shape = reference_shape
          /\ np_stack(image_data_list).ok
    /\ \A i \in DOMAIN stderr : stderr[i].kind # "StackError"

\* three arrays have been stacked while a volume of another shape is on disk
ThreeArraysStacked ==
    /\ "stack" \in Range(stages)
    /\ Len(image_data_list) = 3
    /\ concatenated_data # None
    /\ \E p \in DOMAIN disk :
          disk[p].kind = "volume" /\ disk[p].array.shape # reference_shape

\* C14: nib.load is called at most once for each manifest position, first of
\* all for position 1 in the main process; the pool holds one task for each
\* remaining position and none for the first; the first array stays at the
\* head of the list to stack; a successful run has loaded every position
\* exactly once.
EachPositionLoadedOnce ==
    /\ \A i, j \in DOMAIN loads : loads[i] = loads[j] => i = j
    /\ loads # <<>> => loads[1] = 1
    /\ Range(loads) \subseteq DOMAIN paths
    /\ task # <<>> =>
          /\ Len(task) = Len(paths) - 1
          /\ \A k \in DOMAIN task : remaining_paths[k] = paths[k + 1]
          /\ \A k \in DOMAIN task : task[k] # "pending" <=> (k + 1) \in Range(loads)
    /\ first_data # None =>
          /\ image_data_list[1] = first_data
          /\ first_data = Entry(1).array
    /\ Succeeded => Range(loads) = DOMAIN paths /\ Len(loads) = Len(paths)

\* a run ended by a failed task after every position was loaded, the first
\* path being listed a second time
AllLoadedOnceThenFailed ==
    /\ pc = "exit"
    /\ Len(paths) = 3
    /\ Len(loads) = 3
    /\ paths[2] = paths[1]
    /\ task[2] = "failed"

\* C15: when the first manifest entry is missing or unreadable, no reference
\* shape, affine, header or first array is ever set, no task is created, no
\* other entry is loaded and nothing is written; once the first load has been
\* tried the run has exited with code 1 and the single error
\* ReferenceLoadError naming the first path.
FirstLoadFailureAborts ==
    (paths # <<>> /\ Entry(1).kind # "volume") =>
        /\ reference_shape = NoShape
        /\ first_data = None /\ affine = None /\ header = None
        /\ task = <<>> /\ image_data_list = <<>>
        /\ Range(loads) \subseteq {1}
        /\ outFile = outFile0 /\ output_img = None /\ mkdirs = 0
        /\ loads # <<>> =>
              /\ pc = "exit"
              /\ exit_code = 1
              /\ stages = <<"read", "reference">>
              /\ Len(stderr) = 1
              /\ stderr[1].kind = "ReferenceLoadError"
              /\ stderr[1].path = paths[1]

\* a run on three paths ended by the first path naming no file, the other
\* paths naming volumes
FirstFileMissingRunEnded ==
    /\ pc = "exit"
    /\ Len(paths) = 3
    /\ Entry(1).kind = "missing"
    /\ Entry(2).kind = "volume" /\ Entry(3).kind = "volume"

\* the state in which os.makedirs may be called: in the main process, after
\* every position was loaded, every task returned and the arrays were stacked
ReadyToWrite ==
    /\ pc = "image"
    /\ Range(loads) = DOMAIN paths
    /\ \A k \in DOMAIN task : task[k] = "done"
    /\ Len(image_data_list) = Len(paths)
    /\ concatenated_data # None
    /\ stderr = <<>>

\* C16: os.makedirs is called at most once in a run, and only in the main
\* process after all loads and the stacking succeeded, for an output path
\* with a directory part whose directory does not exist; the directory is
\* never made or removed in any other step; nib.save is called, and the
\* output file changed, only when the directory exists or the path has no
\* directory part.
DirectoryCreatedOnceBeforeSave ==
    /\ [](mkdirs <= 1)
    /\ []((pc \in {"save", "done"} \/ outFile # outFile0)
            => (output_dir = "" \/ dirExists))
    /\ [][mkdirs' # mkdirs =>
            (ReadyToWrite /\ output_dir # "" /\ ~dirExists /\ mkdirs' = mkdirs + 1)
         ]_<<mkdirs, dirExists, pc>>
    /\ [][dirExists' # dirExists => (mkdirs' # mkdirs /\ dirExists')
         ]_<<mkdirs, dirExists, pc>>
    /\ [][(pc = "image" /\ output_dir # "" /\ ~dirExists) => mkdirs' # mkdirs
         ]_<<mkdirs, dirExists, pc>>

\* a successful run of three volumes that made the output directory
DirectoryMadeThenSaved ==
    /\ Succeeded
    /\ mkdirs = 1
    /\ Len(paths) = 3

\* what the task of remaining path k ends with, from its own path, the files
\* and the shape of the first volume alone
ExpectedResult(k) ==
    IF BadEntry(k + 1)
    THEN [ok |-> FALSE, exc |-> LoadErrorOf(k + 1)]
    ELSE [ok |-> TRUE, data |-> Entry(k + 1).array]

\* C17: with n_jobs = c > 0 at most c tasks run at the same time; the pool
\* holds exactly one task for each remaining path; the result of a task that
\* ended is the one its own path and the reference shape determine, whatever
\* the other tasks did, and a step of one task changes the state and the
\* result of no other task.
BoundedIndependentTasks ==
    /\ [](n_jobs > 0 => Cardinality({k \in DOMAIN task : task[k] = "running"}) <= n_jobs)
    /\ [](task # <<>> =>
            /\ DOMAIN task = DOMAIN remaining_paths
            /\ DOMAIN result = DOMAIN task
            /\ Len(task) = Len(paths) - 1)
    /\ [](\A k \in DOMAIN task :
            IF task[k] \in {"done", "failed"}
            THEN /\ result[k] = ExpectedResult(k)
                 /\ task[k] = "done" <=> result[k].ok
            ELSE result[k] = None)
    /\ [][DOMAIN task' = DOMAIN task =>
            \A j, k \in DOMAIN task :
                (j # k /\ (task'[j] # task[j] \/ result'[j] # result[j]))
                    => (task'[k] = task[k] /\ result'[k] = result[k])
         ]_<<task, result>>

\* with n_jobs = 1 the second task runs after the first has returned
SecondTaskWaitsForWorker ==
    /\ n_jobs = 1
    /\ Len(task) = 2
    /\ task[1] = "done"
    /\ task[2] = "running"

\* the tasks that have not ended: pending or running
Unfinished == {k \in DOMAIN task : task[k] \in {"pending", "running"}}

\* C18: when every started task ends and the calls of the codec return, the
\* run reaches a terminal state. While a task has not ended, the run is in
\* the load phase, or has exited on the failure of another task; and while a
\* task has not ended and no task has failed, the main process can take no
\* step: neither the join nor the abort is possible, so a task that never
\* ends stalls the run.
TerminatesUnlessTaskHangs ==
    /\ <>Terminated
    /\ [](Unfinished # {} =>
            /\ pc \in {"load", "exit"}
            /\ pc = "exit" => FailedTasks # {}
            /\ "stack" \notin Range(stages)
            /\ concatenated_data = None /\ outFile = outFile0)
    /\ []((pc = "load" /\ Unfinished # {} /\ FailedTasks = {}) =>
            ~ENABLED (Join \/ AbortLoad))

\* the first task has returned its data and the second is still running: the
\* main process waits
WaitingForLastTask ==
    /\ pc = "load"
    /\ n_jobs # 1
    /\ Len(task) = 2
    /\ task[1] = "done"
    /\ task[2] = "running"

\* p is the line l without its leading and trailing whitespace: a slice of l
\* that begins and ends with a character that is not whitespace, all of l
\* outside it being whitespace
IsStripped(p, l) ==
    \E a, b \in DOMAIN l :
        /\ a <= b
        /\ p = SubSeq(l, a, b)
        /\ l[a] \notin Whitespace /\ l[b] \notin Whitespace
        /\ \A i \in DOMAIN l : (i < a \/ i > b) => l[i] \in Whitespace

\* the line of the manifest that is its j-th non-blank line
NthNonBlank(j) ==
    CHOOSE i \in NonBlank : Cardinality({m \in NonBlank : m <= i}) = j

\* C19: once the manifest is read, the path sequence has one entry per
\* non-blank line of the manifest, the j-th entry being the j-th non-blank
\* line without its leading and trailing whitespace: nothing is reordered,
\* dropped or deduplicated.
PathsAreStrippedLinesInOrder ==
    (pc # "read" /\ manifest.kind = "file") =>
        /\ Len(paths) = Cardinality(NonBlank)
        /\ \A j \in DOMAIN paths :
              IsStripped(paths[j], manifest.lines[NthNonBlank(j)])

\* the manifest b, blank, b has been read: two entries, both b
ManifestWithDuplicateRead ==
    /\ pc = "first"
    /\ manifest.kind = "file"
    /\ manifest.lines = <<LineB, BlankLine, LineB>>
    /\ paths = <<strip(LineB), strip(LineB)>>

\* C20: a run on a manifest with exactly one entry never sets up the pool:
\* it has no task and no parallel stage, whatever n_jobs is; and two runs on
\* such a manifest and the same files, with any two values of n_jobs, 0
\* included, pass through the same stages and end the same way, both failing
\* before the save stage or both stacking the same array.
SingleEntryIgnoresJobs ==
    (pc # "read" /\ Len(paths) = 1) =>
        /\ pc \notin {"pool", "load"}
        /\ task = <<>> /\ finished = <<>>
        /\ "parallel" \notin Range(stages)
        /\ (prev # None /\ Terminated) =>
              /\ SameOutcome(prev, Outcome)
              /\ "parallel" \notin Range(prev.stages)
              /\ FailedBeforeSave(Outcome) =>
                    (prev.stages = stages /\ prev.exit_code = exit_code)

\* a run with n_jobs = 0 and then one with n_jobs = 1 on a manifest of one
\* entry, both of which have stacked the single volume
OneEntryTwoRunsZeroJobs ==
    /\ prev # None
    /\ prev.n_jobs = 0
    /\ n_jobs = 1
    /\ Len(paths) = 1
    /\ Terminated
    /\ prev.concatenated_data # None
    /\ concatenated_data = prev.concatenated_data

====
